---- MODULE Spec2Model ----
(***************************************************************************)
(* Longest-lead-time-path finder of the supply-chain visualizer            *)
(* (src/globe.py, compute_longest_lead_path), as a state machine: the      *)
(* recursion of dfs is an explicit stack of frames, one action per step.   *)
(* Node ids are 1..NumNodes (the code's uuid strings, compared only for    *)
(* equality), a flow is referred to by its index in map_data.flows (object *)
(* identity), and lead times are small naturals or None.                   *)
(* Further down: the loop of collect_visual_data over the flows, in exact  *)
(* rationals (SpecArrows), and the geometry functions of lines 774-836 in  *)
(* fixed point (SpecGeo); last, the Grid Survival timer of src/q4 game     *)
(* (SpecTimer, and LiveTimer for the timer left to its ticks).             *)
(***************************************************************************)
EXTENDS Integers, Sequences, FiniteSets, TLC

\* ---------------------------------------------------------------- bounds
NumNodes == 4
MaxFlows == 2
MaxLead == 2
MaxCalls == 2

\* Python's None (node ids, flow references and lead times are never negative)
None == 0 - 1

Nodes == 1..NumNodes
LeadValues == {None} \cup (0..MaxLead)

\* A MaterialFlow row, restricted to the fields the path finder reads.
MaterialFlow == [from_node_id : Nodes, to_node_id : Nodes, lead_time_days : LeadValues]

Flow(f, t, l) == [from_node_id |-> f, to_node_id |-> t, lead_time_days |-> l]

\* The two flow sets spelled out in the specification's examples,
ExampleDag == << Flow(1, 2, 3), Flow(2, 3, 4), Flow(1, 3, 2) >>
ExampleCycle == << Flow(1, 2, 5), Flow(2, 1, 5) >>
\* a cycle of three nodes, and a cycle that a second branch runs into.
ExampleRing == << Flow(1, 2, 1), Flow(2, 3, 1), Flow(3, 1, 1) >>
ExampleCrossBranch == << Flow(1, 2, 1), Flow(2, 1, 5), Flow(3, 2, 9) >>
Examples == { ExampleDag, ExampleCycle, ExampleRing, ExampleCrossBranch }

\* Node ids are opaque uuid strings: the code hashes them and compares them for
\* equality and nothing else, so a flow list behaves as any renaming of its ids
\* does. One list of each class is kept: ids numbered by first mention.
MaxId(fl) ==
    LET ids == { fl[k].from_node_id : k \in 1..Len(fl) } \cup { fl[k].to_node_id : k \in 1..Len(fl) }
    IN  IF ids = {} THEN 0 ELSE CHOOSE m \in ids : \A x \in ids : x <= m

FirstMention(fl, flow) ==
    /\ flow.from_node_id <= MaxId(fl) + 1
    /\ flow.to_node_id <= (IF flow.from_node_id > MaxId(fl) THEN flow.from_node_id ELSE MaxId(fl)) + 1

RECURSIVE ListsOfLen(_)
ListsOfLen(n) ==
    IF n = 0 THEN { << >> }
    ELSE UNION { { Append(fl, flow) : flow \in { x \in MaterialFlow : FirstMention(fl, x) } } :
                 fl \in ListsOfLen(n - 1) }

\* The flow lists a call may receive: map_data.flows
FlowLists == UNION { ListsOfLen(n) : n \in 0..MaxFlows } \cup Examples

VARIABLES
    flows,       \* map_data.flows, the input of the call
    pc,          \* position in compute_longest_lead_path
    outgoing,    \* the defaultdict: [keys: insertion order, lists: node -> flow indices]
    memo,        \* node -> (total, chosen flow), a function on the memoized nodes
    stack,       \* the active dfs calls, innermost last
    visiting,    \* the set object passed down one top-level dfs call
    ret,         \* value returned by the dfs call that returned last
    ki,          \* position of the main loop in outgoing.keys()
    best_total,
    best_start,
    path,
    current,
    result,      \* the returned (total, path) once pc = "done"
    calls,       \* number of calls made on this flow list
    prev_result, \* the result of the previous call on this flow list
    given,       \* the flow list as it was handed to the call
    earlier,     \* a call made on another flow list in between: [at, flows, result]
    work,        \* how often this call ran line 1114 per node and line 1117 per flow
    \* collect_visual_data, the loop over the flows (lines 950-1004)
    filtered_flows,  \* the flows of the loop, each with its endpoints as looked up
    fpos,            \* position of the loop in filtered_flows
    arrow_records,
    flow_records,
    \* the geometry functions (lines 774-836) on one pair of points
    source,        \* [latitude, longitude] in degrees
    target,
    frac,          \* the fraction handed to intermediate_point
    gpc,           \* the call that comes next
    out_bearing,   \* calculate_bearing(source, target)
    out_mid,       \* intermediate_point(source, target, frac)
    out_distance,  \* haversine_distance_km(source, target)
    out_destination, \* destination_point(source, out_bearing, out_distance)
    \* GridApp of the Grid Survival timer (src/q4 game, both versions)
    start_grid_points,   \* points
    grid_points,         \* in units of 1/UnitsPerPoint of a point
    duration_sec,        \* seconds
    elapsed_sec,         \* in ticks of 1/TicksPerSec of a second
    running,
    rate_multiplier,     \* in quarters: 4 is 1.0
    alert_state,
    victory_active,
    team_station_counts,
    team_mus_counts,
    start_btn,           \* the state option of the Start button
    pause_btn,
    acts,                \* user actions handled so far
    ticks,               \* ticks handled so far
    called               \* the handler that ran last, with its arguments

arrowVars == << filtered_flows, fpos, arrow_records, flow_records >>

geoVars == << source, target, frac, gpc, out_bearing, out_mid, out_distance,
              out_destination >>

timerVars == << start_grid_points, grid_points, duration_sec, elapsed_sec, running,
                rate_multiplier, alert_state, victory_active, team_station_counts,
                team_mus_counts, start_btn, pause_btn, acts, ticks, called >>

vars == << flows, pc, outgoing, memo, stack, visiting, ret, ki, best_total,
           best_start, path, current, result, calls, prev_result, given, earlier,
           work, arrowVars, geoVars, timerVars >>

\* ------------------------------------------------------------ pure helpers

\* mutant of OrZero: the "or 0.0" is lost, the field is passed on as it is
OrNothing(v) == v

\* flow.lead_time_days or 0.0 : None and 0.0 are both falsy
OrZero(v) == IF v = None \/ v = 0 THEN 0 ELSE v

\* the outcome of an expression that raises TypeError (no lead time is negative)
TypeError == 0 - 2

\* float(x): raises TypeError on None
Float(v) == IF v = None THEN TypeError ELSE v

\* mutant of LeadOf: a missing lead time defaults to one day, float(... or 1.0)
LeadOrOne(flow) == IF flow.lead_time_days = None \/ flow.lead_time_days = 0
                   THEN 1 ELSE flow.lead_time_days

\* float(flow.lead_time_days or 0.0)
LeadOf(flow) == Float(OrZero(flow.lead_time_days))

\* for flow in map_data.flows: outgoing[flow.from_node_id].append(flow)
RECURSIVE BuildOutgoing(_, _)
BuildOutgoing(fl, n) ==
    IF n = 0 THEN [keys |-> <<>>, lists |-> [x \in Nodes |-> <<>>]]
    ELSE LET o == BuildOutgoing(fl, n - 1)
             src == fl[n].from_node_id
             known == \E k \in 1..Len(o.keys) : o.keys[k] = src
         IN  [keys  |-> IF known THEN o.keys ELSE Append(o.keys, src),
              lists |-> [o.lists EXCEPT ![src] = Append(@, n)]]

\* outgoing.get(node_id, [])
OutgoingGet(node_id) ==
    IF \E k \in 1..Len(outgoing.keys) : outgoing.keys[k] = node_id
    THEN outgoing.lists[node_id] ELSE <<>>

\* mutant of Memoized: the memo is never consulted, every call recomputes its node
MemoizedNever(node_id) == FALSE

\* if node_id in memo
Memoized(node_id) == node_id \in DOMAIN memo

\* best: Tuple[float, Optional[MaterialFlow]] = (0.0, None)
NoBest == [total |-> 0, flow |-> None]

\* mutant of Better: the comparison is lost, the last flow examined wins
BetterLast(best, total, flow) == [total |-> total, flow |-> flow]

\* mutant of Better: >= for >, a tie goes to the flow examined last
BetterOrEqual(best, total, flow) ==
    IF total >= best.total THEN [total |-> total, flow |-> flow] ELSE best

\* if total > best[0]: best = (total, flow)
Better(best, total, flow) ==
    IF total > best.total THEN [total |-> total, flow |-> flow] ELSE best

\* mutant of Skipped: the check of the active path is lost
SkippedNever(flow, vis) == FALSE

\* if flow.to_node_id in visiting: continue
Skipped(flow, vis) == flow.to_node_id \in vis

\* mutant of KeyAt: the start nodes are kept in a set of strings, whose iteration
\* order changes with the hash seed from one run to the next
KeyAtHashed(k) ==
    IF calls % 2 = 0 THEN outgoing.keys[Len(outgoing.keys) - k + 1] ELSE outgoing.keys[k]

\* for node_id in outgoing.keys(): a dict iterates in insertion order
KeyAt(k) == outgoing.keys[k]

\* if best_start:  (an id is a non-empty uuid string, so only None is falsy)
Truthy(id) == id # None

\* mutant of NextHop: the walk follows the flow's source, current = flow.from_node_id
NextHopSource(flow) == flow.from_node_id

\* current = flow.to_node_id
NextHop(flow) == flow.to_node_id

Frame(node_id) == [node_id |-> node_id, at |-> "enter", i |-> 1, best |-> NoBest]

Top == stack[Len(stack)]
Pop == SubSeq(stack, 1, Len(stack) - 1)
SetTop(fr) == [stack EXCEPT ![Len(stack)] = fr]

\* -------------------------------------------------------------------- Init

\* collect_visual_data is not running
NoFlowLoop ==
    /\ filtered_flows = << >>
    /\ fpos = 1
    /\ arrow_records = << >>
    /\ flow_records = << >>

\* no geometry call is under way
NoGeometry ==
    /\ source = [latitude |-> 0, longitude |-> 0]
    /\ target = [latitude |-> 0, longitude |-> 0]
    /\ frac = 0
    /\ gpc = "idle"
    /\ out_bearing = 0
    /\ out_mid = [raised |-> FALSE, lat |-> 0, lon |-> 0]
    /\ out_distance = 0
    /\ out_destination = [lat |-> 0, lon |-> 0]

\* no GridApp has been constructed
NoTimer ==
    /\ start_grid_points = 0
    /\ grid_points = 0
    /\ duration_sec = 0
    /\ elapsed_sec = 0
    /\ running = FALSE
    /\ rate_multiplier = 0
    /\ alert_state = "none"
    /\ victory_active = FALSE
    /\ team_station_counts = << >>
    /\ team_mus_counts = << >>
    /\ start_btn = "normal"
    /\ pause_btn = "normal"
    /\ acts = 0
    /\ ticks = 0
    /\ called = [handler |-> "none", args |-> << >>]

\* no line of dfs has run yet in this call
NoWork(fl) == [entered |-> [n \in Nodes |-> 0], examined |-> [j \in 1..Len(fl) |-> 0]]

Fresh ==
    /\ pc = "build"
    /\ outgoing = [keys |-> <<>>, lists |-> [x \in Nodes |-> <<>>]]
    /\ memo = << >>
    /\ stack = << >>
    /\ visiting = {}
    /\ ret = NoBest
    /\ ki = 1
    /\ best_total = 0
    /\ best_start = None
    /\ path = << >>
    /\ current = None
    /\ result = [total |-> 0, path |-> << >>]

Init ==
    /\ flows \in FlowLists
    /\ Fresh
    /\ calls = 1
    /\ prev_result = [total |-> None, path |-> << >>]
    /\ given = flows
    /\ work = NoWork(flows)
    /\ earlier = [at |-> "none", flows |-> << >>, result |-> [total |-> None, path |-> << >>]]
    /\ NoFlowLoop
    /\ NoGeometry
    /\ NoTimer

\* ----------------------------------------------------------------- actions

\* mutant of Build: best_total starts at a sentinel below zero
BuildSentinel ==
    /\ pc = "build"
    /\ outgoing' = BuildOutgoing(flows, Len(flows))
    /\ memo' = << >>
    /\ best_total' = None
    /\ best_start' = None
    /\ ki' = 1
    /\ pc' = "main"
    /\ UNCHANGED << flows, stack, visiting, ret, path, current, result, calls, prev_result, given, earlier, work, arrowVars, geoVars, timerVars >>

\* mutant of Build: memo is a dict of the module (or a mutable default argument),
\* never emptied
BuildKeepsMemo ==
    /\ pc = "build"
    /\ outgoing' = BuildOutgoing(flows, Len(flows))
    /\ best_total' = 0
    /\ best_start' = None
    /\ ki' = 1
    /\ pc' = "main"
    /\ UNCHANGED << flows, memo, stack, visiting, ret, path, current, result, calls, prev_result, given, earlier, work, arrowVars, geoVars, timerVars >>

\* lines 1105-1109 and 1128-1129
Build ==
    /\ pc = "build"
    /\ outgoing' = BuildOutgoing(flows, Len(flows))
    /\ memo' = << >>
    /\ best_total' = 0
    /\ best_start' = None
    /\ ki' = 1
    /\ pc' = "main"
    /\ UNCHANGED << flows, stack, visiting, ret, path, current, result, calls, prev_result, given, earlier, work, arrowVars, geoVars, timerVars >>

\* line 1130-1131: the next key of outgoing, dfs(node_id, set())
MainCall ==
    /\ pc = "main"
    /\ ki <= Len(outgoing.keys)
    /\ stack' = << Frame(KeyAt(ki)) >>
    /\ visiting' = {}
    /\ pc' = "dfs"
    /\ UNCHANGED << flows, outgoing, memo, ret, ki, best_total, best_start, path,
                    current, result, calls, prev_result, given, earlier, work, arrowVars, geoVars, timerVars >>

\* mutant of MainReturn: >= for >, the last start node of the greatest total wins
MainReturnOrEqual ==
    /\ pc = "returned"
    /\ IF ret.total >= best_total
       THEN best_total' = ret.total /\ best_start' = KeyAt(ki)
       ELSE UNCHANGED << best_total, best_start >>
    /\ ki' = ki + 1
    /\ pc' = "main"
    /\ UNCHANGED << flows, outgoing, memo, stack, visiting, ret, path, current,
                    result, calls, prev_result, given, earlier, work, arrowVars, geoVars, timerVars >>

\* lines 1131-1134: total, _ = <returned>; keep the strictly greater total
MainReturn ==
    /\ pc = "returned"
    /\ IF ret.total > best_total
       THEN best_total' = ret.total /\ best_start' = KeyAt(ki)
       ELSE UNCHANGED << best_total, best_start >>
    /\ ki' = ki + 1
    /\ pc' = "main"
    /\ UNCHANGED << flows, outgoing, memo, stack, visiting, ret, path, current,
                    result, calls, prev_result, given, earlier, work, arrowVars, geoVars, timerVars >>

\* the value a dfs call returns goes to its caller: the frame below, or the main loop
Return(value, stk) ==
    /\ ret' = value
    /\ stack' = stk
    /\ pc' = IF Len(stk) = 0 THEN "returned" ELSE "dfs"

\* lines 1112-1113: a memoized node returns its entry
DfsMemoHit ==
    /\ pc = "dfs"
    /\ Len(stack) > 0
    /\ Top.at = "enter"
    /\ Memoized(Top.node_id)
    /\ Return(memo[Top.node_id], Pop)
    /\ UNCHANGED << flows, outgoing, memo, visiting, ki, best_total, best_start, path,
                    current, result, calls, prev_result, given, earlier, work, arrowVars, geoVars, timerVars >>

\* lines 1114-1115
DfsEnter ==
    /\ pc = "dfs"
    /\ Len(stack) > 0
    /\ Top.at = "enter"
    /\ ~Memoized(Top.node_id)
    /\ visiting' = visiting \cup { Top.node_id }
    /\ stack' = SetTop([Top EXCEPT !.at = "loop", !.i = 1, !.best = NoBest])
    /\ work' = [work EXCEPT !.entered[Top.node_id] = @ + 1]
    /\ UNCHANGED << flows, pc, outgoing, memo, ret, ki, best_total, best_start, path,
                    current, result, calls, prev_result, given, earlier, arrowVars, geoVars, timerVars >>

\* lines 1116-1118: the next outgoing flow leads to a node on the active path
DfsSkip ==
    /\ pc = "dfs"
    /\ Len(stack) > 0
    /\ Top.at = "loop"
    /\ Top.i <= Len(OutgoingGet(Top.node_id))
    /\ Skipped(flows[OutgoingGet(Top.node_id)[Top.i]], visiting)
    /\ stack' = SetTop([Top EXCEPT !.i = @ + 1])
    /\ work' = [work EXCEPT !.examined[OutgoingGet(Top.node_id)[Top.i]] = @ + 1]
    /\ UNCHANGED << flows, pc, outgoing, memo, visiting, ret, ki, best_total,
                    best_start, path, current, result, calls, prev_result, given, earlier, arrowVars, geoVars, timerVars >>

\* lines 1116-1120: lead is computed, then dfs(flow.to_node_id, visiting) is called
DfsCall ==
    /\ pc = "dfs"
    /\ Len(stack) > 0
    /\ Top.at = "loop"
    /\ Top.i <= Len(OutgoingGet(Top.node_id))
    /\ LET flow == flows[OutgoingGet(Top.node_id)[Top.i]]
       IN  /\ ~Skipped(flow, visiting)
           /\ IF LeadOf(flow) = TypeError
              THEN /\ pc' = "raised"
                   /\ UNCHANGED stack
              ELSE /\ stack' = Append(SetTop([Top EXCEPT !.at = "await"]),
                                      Frame(flow.to_node_id))
                   /\ UNCHANGED pc
    /\ work' = [work EXCEPT !.examined[OutgoingGet(Top.node_id)[Top.i]] = @ + 1]
    /\ UNCHANGED << flows, outgoing, memo, visiting, ret, ki, best_total, best_start,
                    path, current, result, calls, prev_result, given, earlier, arrowVars, geoVars, timerVars >>

\* lines 1120-1123: tail_length, _ = <returned>; total = lead + tail_length
DfsResume ==
    /\ pc = "dfs"
    /\ Len(stack) > 0
    /\ Top.at = "await"
    /\ LET n == OutgoingGet(Top.node_id)[Top.i]
           total == LeadOf(flows[n]) + ret.total
       IN  stack' = SetTop([Top EXCEPT !.at = "loop", !.i = @ + 1,
                                       !.best = Better(Top.best, total, n)])
    /\ UNCHANGED << flows, pc, outgoing, memo, visiting, ret, ki, best_total,
                    best_start, path, current, result, calls, prev_result, given, earlier, work, arrowVars, geoVars, timerVars >>

\* mutant of DfsFinish: line 1124 dropped, the node stays in visiting
DfsFinishKeepsVisiting ==
    /\ pc = "dfs"
    /\ Len(stack) > 0
    /\ Top.at = "loop"
    /\ Top.i > Len(OutgoingGet(Top.node_id))
    /\ memo' = (Top.node_id :> Top.best) @@ memo
    /\ Return(Top.best, Pop)
    /\ UNCHANGED << flows, outgoing, visiting, ki, best_total, best_start, path, current,
                    result, calls, prev_result, given, earlier, work, arrowVars, geoVars, timerVars >>

\* lines 1124-1126: the loop is over
DfsFinish ==
    /\ pc = "dfs"
    /\ Len(stack) > 0
    /\ Top.at = "loop"
    /\ Top.i > Len(OutgoingGet(Top.node_id))
    /\ visiting' = visiting \ { Top.node_id }
    /\ memo' = (Top.node_id :> Top.best) @@ memo
    /\ Return(Top.best, Pop)
    /\ UNCHANGED << flows, outgoing, ki, best_total, best_start, path, current,
                    result, calls, prev_result, given, earlier, work, arrowVars, geoVars, timerVars >>

\* lines 1136-1138: the main loop is over
WalkStart ==
    /\ pc = "main"
    /\ ki > Len(outgoing.keys)
    /\ path' = << >>
    /\ IF Truthy(best_start)
       THEN current' = best_start /\ pc' = "walk"
       ELSE UNCHANGED current /\ pc' = "return"
    /\ UNCHANGED << flows, outgoing, memo, stack, visiting, ret, ki, best_total,
                    best_start, result, calls, prev_result, given, earlier, work, arrowVars, geoVars, timerVars >>

\* mutant of WalkStep: "if" for "while", the walk stops after its first flow
WalkStepOnce ==
    /\ pc = "walk"
    /\ IF current \notin DOMAIN memo \/ memo[current].flow = None
       THEN UNCHANGED << path, current >>
       ELSE /\ path' = Append(path, memo[current].flow)
            /\ current' = NextHop(flows[memo[current].flow])
    /\ pc' = "return"
    /\ UNCHANGED << flows, outgoing, memo, stack, visiting, ret, ki, best_total,
                    best_start, result, calls, prev_result, given, earlier, work, arrowVars, geoVars, timerVars >>

\* lines 1139-1145: one turn of the while loop
WalkStep ==
    /\ pc = "walk"
    /\ IF current \notin DOMAIN memo \/ memo[current].flow = None
       THEN pc' = "return" /\ UNCHANGED << path, current >>
       ELSE /\ path' = Append(path, memo[current].flow)
            /\ current' = NextHop(flows[memo[current].flow])
            /\ UNCHANGED pc
    /\ UNCHANGED << flows, outgoing, memo, stack, visiting, ret, ki, best_total,
                    best_start, result, calls, prev_result, given, earlier, work, arrowVars, geoVars, timerVars >>

\* line 1146
ReturnResult ==
    /\ pc = "return"
    /\ result' = [total |-> best_total, path |-> path]
    /\ pc' = "done"
    /\ UNCHANGED << flows, outgoing, memo, stack, visiting, ret, ki, best_total,
                    best_start, path, current, calls, prev_result, given, earlier, work, arrowVars, geoVars, timerVars >>

\* line 1211: render_summary runs again (a rerun of the page) on the same flow list;
\* every local of the previous call is gone
CallAgain ==
    /\ pc = "done"
    /\ calls < MaxCalls
    /\ calls' = calls + 1
    /\ prev_result' = result
    /\ pc' = "build"
    /\ outgoing' = [keys |-> <<>>, lists |-> [x \in Nodes |-> <<>>]]
    /\ memo' = << >>
    /\ stack' = << >>
    /\ visiting' = {}
    /\ ret' = NoBest
    /\ ki' = 1
    /\ best_total' = 0
    /\ best_start' = None
    /\ path' = << >>
    /\ current' = None
    /\ result' = [total |-> 0, path |-> << >>]
    /\ work' = NoWork(flows)
    /\ UNCHANGED << flows, given, earlier, arrowVars, geoVars, timerVars >>

\* the flow list of the next rerun when the selection has changed
OtherList == IF flows = ExampleDag THEN ExampleCycle ELSE ExampleDag

\* line 1211: the page is rerun with another selection, so the call gets another
\* flow list; the names of the finished call are rebound by the new call itself
\* (outgoing and memo at lines 1105-1109, visiting at 1131, path at 1136)
CallOther ==
    /\ pc = "done"
    /\ calls = MaxCalls
    /\ earlier.at = "none"
    /\ earlier' = [at |-> "away", flows |-> flows, result |-> result]
    /\ flows' = OtherList
    /\ given' = OtherList
    /\ work' = NoWork(OtherList)
    /\ pc' = "build"
    /\ result' = [total |-> 0, path |-> << >>]
    /\ UNCHANGED << outgoing, memo, stack, visiting, ret, ki, best_total, best_start,
                    path, current, calls, prev_result, arrowVars, geoVars, timerVars >>

\* line 1211: the selection is changed back, the call gets the first flow list again
CallBack ==
    /\ pc = "done"
    /\ earlier.at = "away"
    /\ earlier' = [earlier EXCEPT !.at = "back"]
    /\ flows' = earlier.flows
    /\ given' = earlier.flows
    /\ work' = NoWork(earlier.flows)
    /\ pc' = "build"
    /\ result' = [total |-> 0, path |-> << >>]
    /\ UNCHANGED << outgoing, memo, stack, visiting, ret, ki, best_total, best_start,
                    path, current, calls, prev_result, arrowVars, geoVars, timerVars >>

\* lines 1212-1217: what render_summary writes under the metrics
Caption(longest_days, path_flows) ==
    IF path_flows # << >> THEN "Longest lead-time path" ELSE "No lead-time path available"

Next ==
    \/ Build
    \/ MainCall
    \/ MainReturn
    \/ DfsMemoHit
    \/ DfsEnter
    \/ DfsSkip
    \/ DfsCall
    \/ DfsResume
    \/ DfsFinish
    \/ WalkStart
    \/ WalkStep
    \/ ReturnResult
    \/ CallAgain

Spec == Init /\ [][Next]_vars

\* A run of the call under the scheduling of a sequential program: it keeps stepping.
LiveSpec == Spec /\ WF_vars(Next)

\* Calls on changing flow lists: after the repeated calls, one call on another list
\* and one on the first list again.
NextCalls ==
    \/ Next
    \/ CallOther
    \/ CallBack

SpecCalls == Init /\ [][NextCalls]_vars

\* ------------------------------------------- collect_visual_data, flow loop
\* A float is modelled by the exact rational it stands for, [num, den] with
\* den > 0; comparisons are exact and never multiply two large numbers.

MaxArrowFlows == 2
NumDistances == 12

Rat(n, d) == [num |-> n, den |-> d]

RECURSIVE LessPos(_, _, _, _)
\* n1/d1 < n2/d2 for n1, n2 >= 0 and d1, d2 > 0, by quotients and remainders
LessPos(n1, d1, n2, d2) ==
    IF n1 \div d1 # n2 \div d2 THEN n1 \div d1 < n2 \div d2
    ELSE IF n2 % d2 = 0 THEN FALSE
    ELSE IF n1 % d1 = 0 THEN TRUE
    ELSE LessPos(d2, n2 % d2, d1, n1 % d1)

\* a < b
RatLess(a, b) ==
    IF a.num < 0 /\ b.num >= 0 THEN TRUE
    ELSE IF a.num >= 0 /\ b.num < 0 THEN FALSE
    ELSE IF a.num >= 0 THEN LessPos(a.num, a.den, b.num, b.den)
    ELSE LessPos(0 - b.num, b.den, 0 - a.num, a.den)

RatEq(a, b) == ~RatLess(a, b) /\ ~RatLess(b, a)
RatLeq(a, b) == ~RatLess(b, a)
\* Python's max(a, b) and min(a, b): the first argument unless the second is
\* greater (smaller)
RatMax(a, b) == IF RatLess(a, b) THEN b ELSE a
RatMin(a, b) == IF RatLess(b, a) THEN b ELSE a
\* a - b, a / b (b > 0) and a * b, used where the products stay small
RatSub(a, b) == Rat(a.num * b.den - b.num * a.den, a.den * b.den)
RatDiv(a, b) == Rat(a.num * b.den, a.den * b.num)
RatMul(a, b) == Rat(a.num * b.num, a.den * b.den)

\* values of haversine_distance_km (line 963), in hundredths of a kilometre:
\* 0, 0.05, 0.1, 0.11, 1, 150, 200, 266.66, 266.67, 1000, 3000, half the
\* circumference; then 250, 0.5 and 2900
DistanceSamples == << 0, 5, 10, 11, 100, 15000, 20000, 26666, 26667, 100000,
                      300000, 2001509, 25000, 50, 290000 >>
Distances == { Rat(DistanceSamples[k], 100) :
                   k \in 1..(IF NumDistances < Len(DistanceSamples)
                             THEN NumDistances ELSE Len(DistanceSamples)) }

\* what nodes_by_id.get gives for an endpoint of a flow (lines 952-959)
NodeKinds == { "None", "NoLatitude", "NoLongitude", "Located" }

\* lines 954-959: the flow is not skipped
Retained(flow) == flow.source = "Located" /\ flow.target = "Located"

\* the flows of the loop; a skipped flow has one endpoint that is not located,
\* and its distance is never computed
LoopFlows ==
    [source : {"Located"}, target : {"Located"}, distance_km : Distances]
    \cup [source : NodeKinds \ {"Located"}, target : {"Located"}, distance_km : {Rat(0, 100)}]
    \cup [source : {"Located"}, target : NodeKinds \ {"Located"}, distance_km : {Rat(0, 100)}]

RECURSIVE LoopListsOfLen(_)
LoopListsOfLen(n) ==
    IF n = 0 THEN { << >> }
    ELSE { Append(fl, f) : fl \in LoopListsOfLen(n - 1), f \in LoopFlows }

FilteredFlowLists == UNION { LoopListsOfLen(n) : n \in 0..MaxArrowFlows }

\* the constants of lines 964-968
ArrowThreshold == Rat(1, 10)
FractionFloor == Rat(55, 100)
TipDistance == Rat(120, 1)
One == Rat(1, 1)
ArrowShare == Rat(2, 10)
ArrowMax == Rat(600, 1)
ArrowMin == Rat(40, 1)
WingShare == Rat(35, 100)

\* mutant of HasArrow: >= for >
HasArrowOrEqual(distance_km) == RatLeq(ArrowThreshold, distance_km)

\* line 964: distance_km > 0.1
HasArrow(distance_km) == RatLess(ArrowThreshold, distance_km)

\* mutant of BaseFraction: min for the outer max
BaseFractionMin(distance_km) ==
    RatMin(FractionFloor, RatSub(One, RatDiv(TipDistance, RatMax(distance_km, One))))

\* line 965: max(0.55, 1.0 - (120.0 / max(distance_km, 1.0)))
BaseFraction(distance_km) ==
    RatMax(FractionFloor, RatSub(One, RatDiv(TipDistance, RatMax(distance_km, One))))

\* mutant of ArrowLength: the two limits exchanged
ArrowLengthSwapped(distance_km) ==
    RatMax(RatMin(RatMul(distance_km, ArrowShare), ArrowMin), ArrowMax)

\* line 967: max(min(distance_km * 0.2, 600.0), 40.0)
ArrowLength(distance_km) ==
    RatMax(RatMin(RatMul(distance_km, ArrowShare), ArrowMax), ArrowMin)

\* line 968: arrow_length * 0.35
WingLength(arrow_length) == RatMul(arrow_length, WingShare)

ThisFlow == filtered_flows[fpos]

\* lines 971-981: the record of the arrowhead, with the locals its polygon is
\* computed from in place of the polygon
ArrowRecord ==
    [id |-> fpos,
     distance_km |-> ThisFlow.distance_km,
     base_fraction |-> BaseFraction(ThisFlow.distance_km),
     arrow_length |-> ArrowLength(ThisFlow.distance_km),
     wing_length |-> WingLength(ArrowLength(ThisFlow.distance_km))]

\* lines 983-1004: the record of the flow (its id stands for the fields)
FlowRecord == [id |-> fpos]

\* the state in which collect_visual_data reaches line 950
InitArrows ==
    /\ flows = << >>
    /\ Fresh
    /\ calls = 1
    /\ prev_result = [total |-> None, path |-> << >>]
    /\ given = flows
    /\ work = NoWork(flows)
    /\ earlier = [at |-> "none", flows |-> << >>, result |-> [total |-> None, path |-> << >>]]
    /\ filtered_flows \in FilteredFlowLists
    /\ fpos = 1
    /\ arrow_records = << >>
    /\ flow_records = << >>
    /\ NoGeometry
    /\ NoTimer

pathVars == << flows, pc, outgoing, memo, stack, visiting, ret, ki, best_total,
               best_start, path, current, result, calls, prev_result, given, earlier,
               work >>

\* lines 954-959: continue
FlowSkipped ==
    /\ fpos <= Len(filtered_flows)
    /\ ~Retained(ThisFlow)
    /\ fpos' = fpos + 1
    /\ UNCHANGED << filtered_flows, arrow_records, flow_records, pathVars, geoVars, timerVars >>

\* lines 960-1004 with the arrowhead of lines 965-981
FlowWithArrow ==
    /\ fpos <= Len(filtered_flows)
    /\ Retained(ThisFlow)
    /\ HasArrow(ThisFlow.distance_km)
    /\ arrow_records' = Append(arrow_records, ArrowRecord)
    /\ flow_records' = Append(flow_records, FlowRecord)
    /\ fpos' = fpos + 1
    /\ UNCHANGED << filtered_flows, pathVars, geoVars, timerVars >>

\* lines 960-964 and 983-1004: no arrowhead
FlowWithoutArrow ==
    /\ fpos <= Len(filtered_flows)
    /\ Retained(ThisFlow)
    /\ ~HasArrow(ThisFlow.distance_km)
    /\ flow_records' = Append(flow_records, FlowRecord)
    /\ fpos' = fpos + 1
    /\ UNCHANGED << filtered_flows, arrow_records, pathVars, geoVars, timerVars >>

NextArrows ==
    \/ FlowSkipped
    \/ FlowWithArrow
    \/ FlowWithoutArrow

SpecArrows == InitArrows /\ [][NextArrows]_vars

\* ------------------------------------------------ geometry, lines 774-836
\* A float of the geometry functions is modelled in fixed point: the integer v
\* stands for v / Unit, degrees, radians and kilometres alike. Products and
\* quotients are rounded to the nearest unit.

NumLats == 3
NumLons == 5

Unit == 10000
\* math.pi, and pi / 180 as 71 / 4068
PI == 31416
PiNum == 71
PiDen == 4068

Abs(v) == IF v < 0 THEN 0 - v ELSE v
Mul(u, v) == (u * v + Unit \div 2) \div Unit
\* u / v for v # 0
Div(u, v) == ((2 * u * Unit + Abs(v)) \div (2 * Abs(v))) * (IF v > 0 THEN 1 ELSE 0 - 1)

\* math.radians, math.degrees
Radians(d) == (d * PiNum + PiDen \div 2) \div PiDen
Degrees(r) == (r * PiDen + PiNum \div 2) \div PiNum

\* math.sin on [0, pi/2]: the series up to x^9
SinQ(x) ==
    LET x2 == Mul(x, x)
        t3 == (Mul(x, x2) + 3) \div 6
        t5 == (Mul(t3, x2) + 10) \div 20
        t7 == (Mul(t5, x2) + 21) \div 42
        t9 == (Mul(t7, x2) + 36) \div 72
    IN  x - t3 + t5 - t7 + t9

\* math.sin on [0, pi]
SinPos(m) == IF m > PI \div 2 THEN SinQ(PI - m) ELSE SinQ(m)

\* math.sin, math.cos
Sin(r) ==
    LET m == ((r + PI) % (2 * PI)) - PI
    IN  IF m >= 0 THEN SinPos(m)
        ELSE IF 0 - m = PI THEN 0
        ELSE 0 - SinPos(0 - m)
Cos(r) == Sin(r + PI \div 2)

RECURSIVE SqrtIn(_, _, _)
SqrtIn(n, lo, hi) ==
    IF lo >= hi THEN lo
    ELSE LET m == (lo + hi + 1) \div 2
         IN  IF m * m <= n THEN SqrtIn(n, m, hi) ELSE SqrtIn(n, lo, m - 1)

\* math.sqrt of a value within 0 and 1 (a rounding below 0 counts as 0)
Sqrt(v) == IF v <= 0 THEN 0 ELSE SqrtIn(v * Unit, 0, 2 * Unit)

RECURSIVE AtanIn(_, _, _, _)
\* the angle within [lo, hi) at which y cos = x sin, for 0 <= y <= x
AtanIn(y, x, lo, hi) ==
    IF hi - lo <= 1 THEN lo
    ELSE LET m == (lo + hi) \div 2
         IN  IF y * Cos(m) >= x * Sin(m) THEN AtanIn(y, x, m, hi) ELSE AtanIn(y, x, lo, m)

\* math.atan2, in (-pi, pi]; atan2(0, 0) is 0
Atan2(y, x) ==
    IF x = 0 /\ y = 0 THEN 0
    ELSE LET t == IF Abs(y) <= Abs(x)
                  THEN AtanIn(Abs(y), Abs(x), 0, PI \div 4 + 1)
                  ELSE PI \div 2 - AtanIn(Abs(x), Abs(y), 0, PI \div 4 + 1)
             u == IF x < 0 THEN PI - t ELSE t
         IN  IF y >= 0 THEN u ELSE 0 - u

\* math.asin
Asin(v) == Atan2(v, Sqrt(Unit - Mul(v, v)))

\* math.isclose(u, v) with its defaults rel_tol = 1e-09 and abs_tol = 0.0:
\* abs(u - v) <= max(rel_tol * max(abs(u), abs(v)), abs_tol)
IsClose(u, v) ==
    LET larger == IF Abs(u) > Abs(v) THEN Abs(u) ELSE Abs(v)
    IN  Abs(u - v) <= larger \div 1000000000

\* mutant of calculate_bearing: the result of atan2 is returned as it is
calculate_bearing_raw(lat1, lon1, lat2, lon2) ==
    LET phi1 == Radians(lat1)
        phi2 == Radians(lat2)
        d_lambda == Radians(lon2 - lon1)
        y == Mul(Sin(d_lambda), Cos(phi2))
        x == Mul(Cos(phi1), Sin(phi2)) - Mul(Mul(Sin(phi1), Cos(phi2)), Cos(d_lambda))
    IN  Degrees(Atan2(y, x))

\* lines 774-781
calculate_bearing(lat1, lon1, lat2, lon2) ==
    LET phi1 == Radians(lat1)
        phi2 == Radians(lat2)
        d_lambda == Radians(lon2 - lon1)
        y == Mul(Sin(d_lambda), Cos(phi2))
        x == Mul(Cos(phi1), Sin(phi2)) - Mul(Mul(Sin(phi1), Cos(phi2)), Cos(d_lambda))
        bearing == Degrees(Atan2(y, x))
    IN  (bearing + 360 * Unit) % (360 * Unit)

\* lines 790-794 and 816: sin(d_phi / 2) ** 2 + cos(phi1) * cos(phi2) * sin(d_lambda / 2) ** 2
Haversine(phi1, phi2, d_lambda) ==
    LET s1 == Sin((phi2 - phi1) \div 2)
        s2 == Sin(d_lambda \div 2)
    IN  Mul(s1, s1) + Mul(Mul(Cos(phi1), Cos(phi2)), Mul(s2, s2))

\* lines 798-807, once delta is known to pass the guard; the division by
\* sin(delta) raises ZeroDivisionError when sin(delta) is 0
Interpolated(phi1, lambda1, phi2, lambda2, fraction, delta) ==
    IF Sin(delta) = 0 THEN [raised |-> TRUE, lat |-> 0, lon |-> 0]
    ELSE LET a == Div(Sin(Mul(Unit - fraction, delta)), Sin(delta))
             b == Div(Sin(Mul(fraction, delta)), Sin(delta))
             x == Mul(Mul(a, Cos(phi1)), Cos(lambda1)) + Mul(Mul(b, Cos(phi2)), Cos(lambda2))
             y == Mul(Mul(a, Cos(phi1)), Sin(lambda1)) + Mul(Mul(b, Cos(phi2)), Sin(lambda2))
             z == Mul(a, Sin(phi1)) + Mul(b, Sin(phi2))
             phi_mid == Atan2(z, Sqrt(Mul(x, x) + Mul(y, y)))
             lambda_mid == Atan2(y, x)
         IN  [raised |-> FALSE, lat |-> Degrees(phi_mid), lon |-> Degrees(lambda_mid)]

\* mutant of intermediate_point: the guard of lines 795-796 is missing
intermediate_point_unguarded(lat1, lon1, lat2, lon2, fraction) ==
    LET phi1 == Radians(lat1)
        phi2 == Radians(lat2)
        lambda1 == Radians(lon1)
        lambda2 == Radians(lon2)
        delta == 2 * Asin(Sqrt(Haversine(phi1, phi2, lambda2 - lambda1)))
    IN  Interpolated(phi1, lambda1, phi2, lambda2, fraction, delta)

\* mutant of intermediate_point: the weights of the two points exchanged
intermediate_point_swapped(lat1, lon1, lat2, lon2, fraction) ==
    LET phi1 == Radians(lat1)
        phi2 == Radians(lat2)
        lambda1 == Radians(lon1)
        lambda2 == Radians(lon2)
        delta == 2 * Asin(Sqrt(Haversine(phi1, phi2, lambda2 - lambda1)))
    IN  IF IsClose(delta, 0) THEN [raised |-> FALSE, lat |-> lat1, lon |-> lon1]
        ELSE Interpolated(phi1, lambda1, phi2, lambda2, Unit - fraction, delta)

\* lines 784-807
intermediate_point(lat1, lon1, lat2, lon2, fraction) ==
    LET phi1 == Radians(lat1)
        phi2 == Radians(lat2)
        lambda1 == Radians(lon1)
        lambda2 == Radians(lon2)
        delta == 2 * Asin(Sqrt(Haversine(phi1, phi2, lambda2 - lambda1)))
    IN  IF IsClose(delta, 0) THEN [raised |-> FALSE, lat |-> lat1, lon |-> lon1]
        ELSE Interpolated(phi1, lambda1, phi2, lambda2, fraction, delta)

\* line 811 and 822, in kilometres
Radius == 6371

\* lines 810-818
haversine_distance_km(lat1, lon1, lat2, lon2) ==
    LET phi1 == Radians(lat1)
        phi2 == Radians(lat2)
        d_lambda == Radians(lon2 - lon1)
        a == Haversine(phi1, phi2, d_lambda)
        c == 2 * Atan2(Sqrt(a), Sqrt(Unit - a))
    IN  Radius * c

\* lines 821-836
destination_point(lat, lon, bearing, distance_km) ==
    LET delta == distance_km \div Radius
        theta == Radians(bearing)
        phi1 == Radians(lat)
        lambda1 == Radians(lon)
        sin_phi2 == Mul(Sin(phi1), Cos(delta)) + Mul(Mul(Cos(phi1), Sin(delta)), Cos(theta))
        phi2 == Asin(sin_phi2)
        y == Mul(Mul(Sin(theta), Sin(delta)), Cos(phi1))
        x == Cos(delta) - Mul(Sin(phi1), sin_phi2)
        lambda2 == lambda1 + Atan2(y, x)
    IN  [lat |-> Degrees(phi2), lon |-> Degrees(lambda2)]

\* latitudes and longitudes of the nodes, in whole degrees: away from the poles
\* and from the meridian of 180 degrees, and no two longitudes 180 degrees apart,
\* where the outcome hangs on the last bit of cos(pi/2) and sin(pi)
LatSamples == << 0, 60, 0 - 30, 30, 0 - 60 >>
LonSamples == << 0, 90, 0 - 135, 135, 0 - 60, 30, 0 - 15 >>
Firsts(samples, n) == { samples[k] * Unit : k \in 1..(IF n < Len(samples) THEN n ELSE Len(samples)) }
Points == [latitude : Firsts(LatSamples, NumLats), longitude : Firsts(LonSamples, NumLons)]
\* 0.0, 0.5 (line 962), 1.0 and 0.55 (line 965)
Fractions == { 0, Unit \div 2, Unit, (55 * Unit) \div 100 }

\* two nodes and a fraction; then the calls in the order of lines 961-963,
\* and destination_point from the source by that bearing and distance
InitGeo ==
    /\ flows = << >>
    /\ Fresh
    /\ calls = 1
    /\ prev_result = [total |-> None, path |-> << >>]
    /\ given = flows
    /\ work = NoWork(flows)
    /\ earlier = [at |-> "none", flows |-> << >>, result |-> [total |-> None, path |-> << >>]]
    /\ NoFlowLoop
    /\ source \in Points
    /\ target \in Points
    /\ frac \in Fractions
    /\ gpc = "bearing"
    /\ out_bearing = 0
    /\ out_mid = [raised |-> FALSE, lat |-> 0, lon |-> 0]
    /\ out_distance = 0
    /\ out_destination = [lat |-> 0, lon |-> 0]
    /\ NoTimer

\* line 961
GeoBearing ==
    /\ gpc = "bearing"
    /\ out_bearing' = calculate_bearing(source.latitude, source.longitude,
                                         target.latitude, target.longitude)
    /\ gpc' = "midpoint"
    /\ UNCHANGED << source, target, frac, out_mid, out_distance, out_destination,
                    pathVars, arrowVars, timerVars >>

\* lines 962 and 966
GeoIntermediate ==
    /\ gpc = "midpoint"
    /\ out_mid' = intermediate_point(source.latitude, source.longitude,
                                      target.latitude, target.longitude, frac)
    /\ gpc' = IF out_mid'.raised THEN "raised" ELSE "distance"
    /\ UNCHANGED << source, target, frac, out_bearing, out_distance, out_destination,
                    pathVars, arrowVars, timerVars >>

\* line 963
GeoHaversine ==
    /\ gpc = "distance"
    /\ out_distance' = haversine_distance_km(source.latitude, source.longitude,
                                              target.latitude, target.longitude)
    /\ gpc' = "destination"
    /\ UNCHANGED << source, target, frac, out_bearing, out_mid, out_destination,
                    pathVars, arrowVars, timerVars >>

\* lines 821-836, called with the bearing and the distance of the pair
GeoDestination ==
    /\ gpc = "destination"
    /\ out_destination' = destination_point(source.latitude, source.longitude,
                                             out_bearing, out_distance)
    /\ gpc' = "done"
    /\ UNCHANGED << source, target, frac, out_bearing, out_mid, out_distance,
                    pathVars, arrowVars, timerVars >>

NextGeo ==
    \/ GeoBearing
    \/ GeoIntermediate
    \/ GeoHaversine
    \/ GeoDestination

SpecGeo == InitGeo /\ [][NextGeo]_vars


\* ------------------------------------------------------ Grid Survival timer
\* GridApp of src/q4 game/grid_survival_v1_copy.py; grid_survival_v2_copy.py has
\* the same handlers line for line (set_state for config(state=...)).  Time is
\* counted in ticks of dt = 0.1 s and the grid in 1/1800 of a point, so that
\* every amount the code computes is a whole number: one tick at multiplier m
\* depletes (1/45) * m * 0.1 points, which is 4 * m units, and the smallest
\* multiplier is 1/4.  last_tick_ms is left out: both branches of the test at
\* the head of _tick leave dt = 0.1.
MaxActs == 2
MaxTicks == 3
NumRuns == 6

DefaultStartGrid == 15
DefaultDurationSec == 30 * 60
BaselinePeriod == 45
TicksPerSec == 10
UnitsPerPoint == 1800
QuartersPerOne == 4
NumTeams == 10
StationPoints == 2
MusPoints == 7

\* set_paused_rate, set_quarter_rate, set_half_rate, set_normal_rate,
\* set_double_rate, set_quad_rate
Rates == { 0, 1, 2, 4, 8, 16 }
NormalRate == 1 * QuartersPerOne

Float0(points) == points * UnitsPerPoint
AtLeastZero(v) == IF v < 0 THEN 0 ELSE v

\* baseline_rate_pts_per_sec * rate_multiplier * dt
Depletion(rate) == (UnitsPerPoint * rate) \div (BaselinePeriod * QuartersPerOne * TicksPerSec)

\* what the two entries may hold, and int() of it
EntryTexts == { "1", "2", "0", "-3", "1.5", "abc" }
ValueError == [raised |-> TRUE, value |-> 0]
IntOf(text) ==
    CASE text = "1" -> [raised |-> FALSE, value |-> 1]
      [] text = "2" -> [raised |-> FALSE, value |-> 2]
      [] text = "0" -> [raised |-> FALSE, value |-> 0]
      [] text = "-3" -> [raised |-> FALSE, value |-> 0 - 3]
      [] OTHER -> ValueError

\* the buttons of the event panel: -1, +1, +5, +2 Station, +7 MUS
Amounts == { 0 - 1, 1, 5, StationPoints, MusPoints }
\* the first team, the last team, and an index past the last
TeamIndexes == { 0, NumTeams - 1, NumTeams }
Deltas == { 0 - 1, 1 }

\* _refresh_labels, its writes to alert_state
RefreshLabels(gp, alert) ==
    IF AtLeastZero(gp) <= 0 THEN "failure"
    ELSE IF alert = "success" THEN "success"
    ELSE "none"

Call(handler, args) == [handler |-> handler, args |-> args]

\* __init__
Constructed ==
    /\ start_grid_points = DefaultStartGrid
    /\ grid_points = Float0(DefaultStartGrid)
    /\ duration_sec = DefaultDurationSec
    /\ elapsed_sec = 0
    /\ running = FALSE
    /\ rate_multiplier = NormalRate
    /\ alert_state = "none"
    /\ victory_active = FALSE
    /\ team_station_counts = [k \in 1..NumTeams |-> 0]
    /\ team_mus_counts = [k \in 1..NumTeams |-> 0]
    /\ start_btn = "normal"
    /\ pause_btn = "normal"

\* Runs of the timer that the ticks of a whole game lead through: the settings
\* applied (or the defaults), one multiplier set, start, k1 ticks, another
\* multiplier set, k2 ticks.
Runs == << [sg |-> 1, dur_min |-> 1, q1 |-> 4, k1 |-> 448, q2 |-> 4, k2 |-> 0],
           [sg |-> 1, dur_min |-> 1, q1 |-> 0, k1 |-> 598, q2 |-> 0, k2 |-> 0],
           [sg |-> 1, dur_min |-> 1, q1 |-> 4, k1 |-> 300, q2 |-> 2, k2 |-> 298],
           [sg |-> 1, dur_min |-> 1, q1 |-> 16, k1 |-> 111, q2 |-> 16, k2 |-> 0],
           [sg |-> 15, dur_min |-> 30, q1 |-> 4, k1 |-> 6748, q2 |-> 4, k2 |-> 0],
           [sg |-> 2, dur_min |-> 1, q1 |-> 1, k1 |-> 599, q2 |-> 1, k2 |-> 0],
           [sg |-> 2, dur_min |-> 1, q1 |-> 8, k1 |-> 449, q2 |-> 8, k2 |-> 0] >>

RunGrid(r) == Float0(r.sg) - r.k1 * Depletion(r.q1) - r.k2 * Depletion(r.q2)
\* no tick of the run has met an end condition
StillRunning(r) ==
    /\ RunGrid(r) > 0
    /\ r.k1 + r.k2 < r.dur_min * 60 * TicksPerSec

\* the state the run has led to
AfterRun(r) ==
    /\ start_grid_points = r.sg
    /\ grid_points = RunGrid(r)
    /\ duration_sec = r.dur_min * 60
    /\ elapsed_sec = r.k1 + r.k2
    /\ running = TRUE
    /\ rate_multiplier = r.q2
    /\ alert_state = "none"
    /\ victory_active = FALSE
    /\ team_station_counts = [k \in 1..NumTeams |-> 0]
    /\ team_mus_counts = [k \in 1..NumTeams |-> 0]
    /\ start_btn = "disabled"
    /\ pause_btn = "normal"

InitTimer ==
    /\ flows = << >>
    /\ Fresh
    /\ calls = 1
    /\ prev_result = [total |-> None, path |-> << >>]
    /\ given = flows
    /\ work = NoWork(flows)
    /\ earlier = [at |-> "none", flows |-> << >>, result |-> [total |-> None, path |-> << >>]]
    /\ NoFlowLoop
    /\ NoGeometry
    /\ \/ Constructed /\ called = Call("__init__", << >>)
       \/ \E n \in 1..NumRuns :
              StillRunning(Runs[n]) /\ AfterRun(Runs[n]) /\ called = Call("_tick", << >>)
    /\ acts = 0
    /\ ticks = 0

otherVars == << pathVars, arrowVars, geoVars >>

\* clear_victory_effect, its writes to alert_state (the label holds a text
\* exactly while victory_active)
ClearVictoryEffect(gp, alert) == IF victory_active THEN RefreshLabels(gp, alert) ELSE alert

\* start
start ==
    /\ IF ~running
       THEN /\ running' = TRUE
            /\ alert_state' = ClearVictoryEffect(grid_points, "none")
            /\ victory_active' = FALSE
            /\ start_btn' = "disabled"
            /\ pause_btn' = "normal"
       ELSE UNCHANGED << running, alert_state, victory_active, start_btn, pause_btn >>
    /\ UNCHANGED << start_grid_points, grid_points, duration_sec, elapsed_sec,
                    rate_multiplier, team_station_counts, team_mus_counts >>

\* pause
pause ==
    /\ IF running
       THEN /\ running' = FALSE
            /\ start_btn' = "normal"
            /\ pause_btn' = "disabled"
       ELSE UNCHANGED << running, start_btn, pause_btn >>
    /\ UNCHANGED << start_grid_points, grid_points, duration_sec, elapsed_sec,
                    rate_multiplier, alert_state, victory_active, team_station_counts,
                    team_mus_counts >>

\* toggle_start_pause
toggle_start_pause == IF running THEN pause ELSE start

\* mutant of reset: the multiplier is left as it is
reset_keeps_rate(sg) ==
    /\ running' = FALSE
    /\ grid_points' = Float0(sg)
    /\ elapsed_sec' = 0
    /\ UNCHANGED rate_multiplier
    /\ alert_state' = RefreshLabels(Float0(sg), ClearVictoryEffect(Float0(sg), "none"))
    /\ victory_active' = FALSE
    /\ team_station_counts' = [k \in 1..NumTeams |-> 0]
    /\ team_mus_counts' = [k \in 1..NumTeams |-> 0]
    /\ start_btn' = "normal"
    /\ pause_btn' = "disabled"

\* reset, with start_grid_points = sg
reset(sg) ==
    /\ running' = FALSE
    /\ grid_points' = Float0(sg)
    /\ elapsed_sec' = 0
    /\ rate_multiplier' = NormalRate
    /\ alert_state' = RefreshLabels(Float0(sg), ClearVictoryEffect(Float0(sg), "none"))
    /\ victory_active' = FALSE
    /\ team_station_counts' = [k \in 1..NumTeams |-> 0]
    /\ team_mus_counts' = [k \in 1..NumTeams |-> 0]
    /\ start_btn' = "normal"
    /\ pause_btn' = "disabled"

\* set_paused_rate ... set_quad_rate
set_rate(rate) ==
    /\ rate_multiplier' = rate
    /\ alert_state' = RefreshLabels(grid_points, alert_state)
    /\ UNCHANGED << start_grid_points, grid_points, duration_sec, elapsed_sec, running,
                    victory_active, team_station_counts, team_mus_counts, start_btn,
                    pause_btn >>

\* show_victory_effect
show_victory_effect ==
    /\ victory_active' = TRUE
    /\ UNCHANGED << start_grid_points, grid_points, duration_sec, elapsed_sec, running,
                    rate_multiplier, alert_state, team_station_counts, team_mus_counts,
                    start_btn, pause_btn >>

\* mutant of AddedPoints: no floor at zero
AddedPointsUnfloored(pts) == grid_points + Float0(pts)

\* add_points, the new grid_points
AddedPoints(pts) == AtLeastZero(grid_points + Float0(pts))

\* add_points, its writes (with those of _refresh_labels)
AddPointsWrites(pts) ==
    /\ grid_points' = AddedPoints(pts)
    /\ alert_state' = RefreshLabels(AddedPoints(pts), alert_state)

\* add_points (add_station and add_mus call it with 2 and 7)
add_points(pts) ==
    /\ AddPointsWrites(pts)
    /\ UNCHANGED << start_grid_points, duration_sec, elapsed_sec, running,
                    rate_multiplier, victory_active, team_station_counts,
                    team_mus_counts, start_btn, pause_btn >>

\* mutant of NewCount: no floor at zero
NewCountUnfloored(old, delta) == old + delta

\* new = max(0, old + delta)
NewCount(old, delta) == AtLeastZero(old + delta)

InRange(team_idx) == 0 <= team_idx /\ team_idx < NumTeams

\* update_team_station; the list index team_idx is position team_idx + 1
update_team_station(team_idx, delta) ==
    IF ~InRange(team_idx) \/ NewCount(team_station_counts[team_idx + 1], delta)
                                = team_station_counts[team_idx + 1]
    THEN UNCHANGED << start_grid_points, grid_points, duration_sec, elapsed_sec, running,
                      rate_multiplier, alert_state, victory_active, team_station_counts,
                      team_mus_counts, start_btn, pause_btn >>
    ELSE LET old == team_station_counts[team_idx + 1]
             new == NewCount(old, delta)
         IN  /\ team_station_counts' = [team_station_counts EXCEPT ![team_idx + 1] = new]
             /\ AddPointsWrites((new - old) * StationPoints)
             /\ UNCHANGED << start_grid_points, duration_sec, elapsed_sec, running,
                             rate_multiplier, victory_active, team_mus_counts,
                             start_btn, pause_btn >>

\* update_team_mus
update_team_mus(team_idx, delta) ==
    IF ~InRange(team_idx) \/ NewCount(team_mus_counts[team_idx + 1], delta)
                                = team_mus_counts[team_idx + 1]
    THEN UNCHANGED << start_grid_points, grid_points, duration_sec, elapsed_sec, running,
                      rate_multiplier, alert_state, victory_active, team_station_counts,
                      team_mus_counts, start_btn, pause_btn >>
    ELSE LET old == team_mus_counts[team_idx + 1]
             new == NewCount(old, delta)
         IN  /\ team_mus_counts' = [team_mus_counts EXCEPT ![team_idx + 1] = new]
             /\ AddPointsWrites((new - old) * MusPoints)
             /\ UNCHANGED << start_grid_points, duration_sec, elapsed_sec, running,
                             rate_multiplier, victory_active, team_station_counts,
                             start_btn, pause_btn >>

\* mutant of Accepted: zero passes the test of the entries
AcceptedOrZero(sg, dur_min) ==
    ~sg.raised /\ ~dur_min.raised /\ ~(sg.value < 0 \/ dur_min.value < 0)

\* both int() calls return and neither value is <= 0
Accepted(sg, dur_min) ==
    ~sg.raised /\ ~dur_min.raised /\ ~(sg.value <= 0 \/ dur_min.value <= 0)

\* apply_settings with the texts of the two entries
apply_settings(sg_text, dur_text) ==
    IF running \/ ~Accepted(IntOf(sg_text), IntOf(dur_text))
    THEN UNCHANGED << start_grid_points, grid_points, duration_sec, elapsed_sec, running,
                      rate_multiplier, alert_state, victory_active, team_station_counts,
                      team_mus_counts, start_btn, pause_btn >>
    ELSE /\ start_grid_points' = IntOf(sg_text).value
         /\ duration_sec' = IntOf(dur_text).value * 60
         /\ reset(IntOf(sg_text).value)

DurationTicks == duration_sec * TicksPerSec
Depleted == AtLeastZero(grid_points - Depletion(rate_multiplier))

\* mutant of EndOfTick: the duration has to be exceeded, not reached
EndOfTickLate(gp, elapsed) ==
    IF gp <= 0
    THEN [running |-> FALSE, alert_state |-> "failure"]
    ELSE IF elapsed > DurationTicks
    THEN [running |-> FALSE, alert_state |-> IF gp > 0 THEN "success" ELSE alert_state]
    ELSE [running |-> running, alert_state |-> alert_state]

\* the end conditions of _tick on the new grid_points and elapsed_sec
EndOfTick(gp, elapsed) ==
    IF gp <= 0
    THEN [running |-> FALSE, alert_state |-> "failure"]
    ELSE IF elapsed >= DurationTicks
    THEN [running |-> FALSE, alert_state |-> IF gp > 0 THEN "success" ELSE alert_state]
    ELSE [running |-> running, alert_state |-> alert_state]

\* _tick
tick ==
    /\ IF running /\ grid_points > 0 /\ elapsed_sec < DurationTicks
       THEN /\ elapsed_sec' = elapsed_sec + 1
            /\ grid_points' = Depleted
            /\ running' = EndOfTick(Depleted, elapsed_sec + 1).running
            /\ alert_state' = RefreshLabels(Depleted,
                                            EndOfTick(Depleted, elapsed_sec + 1).alert_state)
       ELSE UNCHANGED << elapsed_sec, grid_points, running, alert_state >>
    /\ UNCHANGED << start_grid_points, duration_sec, rate_multiplier, victory_active,
                    team_station_counts, team_mus_counts, start_btn, pause_btn >>

\* the user has pressed a key or a button
UserActed(handler, args) ==
    /\ acts' = acts + 1
    /\ called' = Call(handler, args)
    /\ UNCHANGED << ticks, otherVars >>

Start ==
    /\ acts < MaxActs
    /\ start
    /\ UserActed("start", << >>)

Pause ==
    /\ acts < MaxActs
    /\ pause
    /\ UserActed("pause", << >>)

ToggleStartPause ==
    /\ acts < MaxActs
    /\ toggle_start_pause
    /\ UserActed("toggle_start_pause", << >>)

Reset ==
    /\ acts < MaxActs
    /\ reset(start_grid_points)
    /\ UNCHANGED << start_grid_points, duration_sec >>
    /\ UserActed("reset", << >>)

SetRate ==
    /\ acts < MaxActs
    /\ \E rate \in Rates : set_rate(rate) /\ UserActed("set_rate", << rate >>)

ShowVictoryEffect ==
    /\ acts < MaxActs
    /\ show_victory_effect
    /\ UserActed("show_victory_effect", << >>)

AddPoints ==
    /\ acts < MaxActs
    /\ \E pts \in Amounts : add_points(pts) /\ UserActed("add_points", << pts >>)

UpdateTeamStation ==
    /\ acts < MaxActs
    /\ \E team_idx \in TeamIndexes, delta \in Deltas :
           /\ update_team_station(team_idx, delta)
           /\ UserActed("update_team_station", << team_idx, delta >>)

UpdateTeamMus ==
    /\ acts < MaxActs
    /\ \E team_idx \in TeamIndexes, delta \in Deltas :
           /\ update_team_mus(team_idx, delta)
           /\ UserActed("update_team_mus", << team_idx, delta >>)

ApplySettings ==
    /\ acts < MaxActs
    /\ \E sg_text \in EntryTexts, dur_text \in EntryTexts :
           /\ apply_settings(sg_text, dur_text)
           /\ UserActed("apply_settings", << sg_text, dur_text >>)

\* self.after(100, self._tick)
Tick ==
    /\ ticks < MaxTicks
    /\ tick
    /\ ticks' = ticks + 1
    /\ called' = Call("_tick", << >>)
    /\ UNCHANGED << acts, otherVars >>

NextTimer ==
    \/ Start
    \/ Pause
    \/ ToggleStartPause
    \/ Reset
    \/ SetRate
    \/ ShowVictoryEffect
    \/ AddPoints
    \/ UpdateTeamStation
    \/ UpdateTeamMus
    \/ ApplySettings
    \/ Tick

SpecTimer == InitTimer /\ [][NextTimer]_vars

\* The timer left to its ticks: self.after(100, self._tick) at the end of every
\* _tick keeps the next one coming for as long as the window lives, and the user
\* does no more than start and pause.
TickOn ==
    /\ tick
    /\ called' = Call("_tick", << >>)
    /\ UNCHANGED << acts, ticks, otherVars >>

NextLive ==
    \/ Start
    \/ Pause
    \/ TickOn

LiveTimer == InitTimer /\ [][NextLive]_vars /\ WF_vars(TickOn)



\* ------------------------------------------------- what the claims speak of

\* a lead time as the specification counts it: a missing one is 0
Lead0(flow) == IF flow.lead_time_days = None THEN 0 ELSE flow.lead_time_days

Max2(a, b) == IF a >= b THEN a ELSE b

RECURSIVE MaxOf(_)
MaxOf(S) == IF S = {} THEN 0
            ELSE LET x == CHOOSE y \in S : TRUE IN Max2(x, MaxOf(S \ {x}))

\* greatest total lead time of a simple path that starts at n and avoids `seen`
RECURSIVE LongestFrom(_, _)
LongestFrom(n, seen) ==
    MaxOf({ Lead0(flows[k]) + LongestFrom(flows[k].to_node_id, seen \cup {flows[k].to_node_id}) :
            k \in { j \in 1..Len(flows) : flows[j].from_node_id = n
                                          /\ flows[j].to_node_id \notin seen } })

\* greatest total lead time over all simple paths of the flow set
LongestSimple == MaxOf({ LongestFrom(n, {n}) : n \in Nodes })

RECURSIVE ReachIn(_, _)
ReachIn(S, k) ==
    IF k = 0 THEN {}
    ELSE LET succ == { flows[j].to_node_id : j \in { i \in 1..Len(flows) : flows[i].from_node_id \in S } }
         IN  succ \cup ReachIn(succ, k - 1)

\* no node reaches itself (a self-loop is a cycle)
Acyclic == \A n \in Nodes : n \notin ReachIn({n}, Len(flows))

HasOutgoing(n) == \E j \in 1..Len(flows) : flows[j].from_node_id = n

RECURSIVE PathTotal(_)
PathTotal(p) == IF p = << >> THEN 0 ELSE Lead0(flows[Head(p)]) + PathTotal(Tail(p))

\* the nodes a flow sequence visits: the source of its first flow, then every target
NodesOf(p) == IF p = << >> THEN << >>
              ELSE << flows[p[1]].from_node_id >> \o [k \in 1..Len(p) |-> flows[p[k]].to_node_id]

Distinct(q) == \A a, b \in 1..Len(q) : a # b => q[a] # q[b]

Chained(p) == \A k \in 1..(Len(p) - 1) : flows[p[k]].to_node_id = flows[p[k + 1]].from_node_id

LastTarget(p) == flows[p[Len(p)]].to_node_id

Done == pc = "done"

\* ------------------------------------------------------------------ claims

\* C1: on an acyclic flow multigraph the returned total is the maximum sum of lead
\* times over all directed paths; for A->B (3), B->C (4), A->C (2) the call returns
\* total 7 with the path A->B, B->C.
C1_DagOptimal ==
    /\ (Done /\ Acyclic) => result.total = LongestSimple
    /\ (Done /\ flows = ExampleDag) => result = [total |-> 7, path |-> << 1, 2 >>]

C1_Witness == Done /\ flows = ExampleDag /\ result.total = 7 /\ LongestSimple = 7

\* C2: for every flow set, cyclic ones included, the returned total never exceeds
\* the greatest total lead time of a simple path.
C2_LowerBound == Done => result.total <= LongestSimple

C2_Witness == Done /\ ~Acyclic /\ result.total > 0 /\ result.total < LongestSimple

\* C3: the call terminates: the dfs never recurses into a node of the active
\* recursion path, the walk along the chosen flows never comes back to a node,
\* and every run reaches the return.
StackNodes == [k \in 1..Len(stack) |-> stack[k].node_id]
NoRevisit ==
    /\ Distinct(StackNodes)
    /\ pc = "dfs" => visiting = { stack[k].node_id : k \in { j \in 1..Len(stack) : stack[j].at # "enter" } }
WalkAdvances == pc \in {"walk", "return"} => Distinct(NodesOf(path))
C3_Terminates == [](NoRevisit /\ WalkAdvances) /\ []<>Done

\* a flow set with a self-loop, whose call returned a path and was made again
C3_Witness ==
    /\ Done /\ calls = MaxCalls /\ Len(result.path) >= 1
    /\ \E j \in 1..Len(flows) : flows[j].from_node_id = flows[j].to_node_id

\* C4: the returned flow sequence is a path without a repeated node: each flow
\* starts where the one before it ends, and no node is visited twice.
C4_SimplePath ==
    /\ pc \in {"walk", "return"} => Chained(path) /\ Distinct(NodesOf(path))
    /\ Done => Chained(result.path) /\ Distinct(NodesOf(result.path))

C4_Witness == Done /\ ~Acyclic /\ Len(result.path) >= 2 /\ HasOutgoing(LastTarget(result.path))

\* C5: an empty flow list gives exactly (0.0, []) and no error.
C5_Empty ==
    flows = << >> => /\ pc # "raised"
                     /\ Done => result = [total |-> 0, path |-> << >>]

C5_Witness == Done /\ flows = << >> /\ result = [total |-> 0, path |-> << >>]

\* C6, as amended: for a flow set that is one two-node cycle, the call returns the
\* lead time of the flow listed first (its source is the first start node, and the
\* other node is memoized with total 0 while that source is on the active path): the
\* path is that one flow when its lead time is above 0, and the result is (0.0, [])
\* when it is 0 or missing. With both lead times 5 the total is 5.
TwoCycle ==
    /\ Len(flows) = 2
    /\ flows[1].from_node_id # flows[1].to_node_id
    /\ flows[2].from_node_id = flows[1].to_node_id
    /\ flows[2].to_node_id = flows[1].from_node_id
C6_TwoCycleFirstFlow ==
    /\ (Done /\ TwoCycle)
           => /\ result.total = Lead0(flows[1])
              /\ result.path = IF Lead0(flows[1]) > 0 THEN << 1 >> ELSE << >>
    /\ (Done /\ flows = ExampleCycle) => result = [total |-> 5, path |-> << 1 >>]

\* a two-node cycle whose second flow has the longer lead time
C6_Witness ==
    /\ Done /\ TwoCycle
    /\ Lead0(flows[2]) > Lead0(flows[1]) /\ Lead0(flows[1]) > 0
    /\ result = [total |-> Lead0(flows[1]), path |-> << 1 >>]

\* C6, as first stated: for a two-node cycle A->B (lead x), B->A (lead y), in either
\* input order, the call returns a one-flow path whose total is max(x, y). Stated
\* for lead times above 0, where a one-flow path of that total exists.
C6_TwoCycleMax ==
    (Done /\ TwoCycle /\ Lead0(flows[1]) > 0 /\ Lead0(flows[2]) > 0)
        => /\ Len(result.path) = 1
           /\ result.total = Max2(Lead0(flows[1]), Lead0(flows[2]))
           /\ PathTotal(result.path) = result.total

\* C7: the call never raises on a well-formed flow set: a flow without a lead time
\* adds exactly 0 to every total, and a node without outgoing flows is a path end.
RECURSIVE ChainTotal(_)
ChainTotal(n) ==
    IF n \notin DOMAIN memo \/ memo[n].flow = None THEN 0
    ELSE Lead0(flows[memo[n].flow]) + ChainTotal(flows[memo[n].flow].to_node_id)
C7_NeverRaises ==
    /\ pc # "raised"
    /\ \A n \in DOMAIN memo : memo[n].total = ChainTotal(n)
    /\ \A n \in DOMAIN memo : ~HasOutgoing(n) => memo[n] = NoBest

C7_Witness ==
    /\ Done /\ Len(result.path) >= 2 /\ result.total > 0
    /\ \E k \in 1..Len(result.path) : flows[result.path[k]].lead_time_days = None
    /\ ~HasOutgoing(LastTarget(result.path))
    /\ memo[LastTarget(result.path)] = NoBest

\* C8, as amended: when the loop over a node's outgoing flows has examined some of
\* them, the chosen flow is the first candidate (target not on the active path), in
\* iteration order, that attains the greatest lead_time + best(successor), provided
\* this greatest value is above 0; when no candidate has a value above 0, no flow is
\* chosen and the best total is 0.
AtLoop == pc = "dfs" /\ Len(stack) > 0 /\ Top.at = "loop"
TopList == OutgoingGet(Top.node_id)
Candidates == { k \in 1..(Top.i - 1) : flows[TopList[k]].to_node_id \notin visiting }
Value(k) == Lead0(flows[TopList[k]]) + memo[flows[TopList[k]].to_node_id].total
Greatest == MaxOf({ Value(k) : k \in Candidates })
FirstGreatest ==
    CHOOSE k \in Candidates :
        Value(k) = Greatest /\ \A j \in Candidates : j < k => Value(j) < Greatest
C8_FirstGreatestPositive ==
    AtLoop => IF Candidates # {} /\ Greatest > 0
              THEN Top.best = [total |-> Greatest, flow |-> TopList[FirstGreatest]]
              ELSE Top.best = NoBest

\* the loop is over, two candidates tie for a greatest value above 0, the first is chosen
C8_Witness ==
    /\ AtLoop /\ Top.i > Len(TopList) /\ Greatest > 0
    /\ Cardinality({ k \in Candidates : Value(k) = Greatest }) >= 2
    /\ Top.best.flow = TopList[FirstGreatest]

\* C8, as first stated: among the candidates the flow with the greatest
\* lead_time + best(successor) is chosen, the first one on a tie.
C8_FirstGreatest ==
    (AtLoop /\ Candidates # {})
        => Top.best = [total |-> Greatest, flow |-> TopList[FirstGreatest]]

AllPositive == \A j \in 1..Len(flows) : Lead0(flows[j]) > 0
C10_EndHasNoChosenFlow ==
    (Done /\ result.path # << >>)
        => LET t == LastTarget(result.path)
           IN  /\ t \in DOMAIN memo
               /\ memo[t] = NoBest
               /\ Acyclic => LongestFrom(t, {t}) = 0
               /\ (Acyclic /\ AllPositive) => ~HasOutgoing(t)

\* an acyclic flow set whose returned path ends at a node that has an outgoing flow
C10_Witness ==
    /\ Done /\ Acyclic /\ Len(result.path) >= 1
    /\ HasOutgoing(LastTarget(result.path))
    /\ memo[LastTarget(result.path)] = NoBest

\* C10, as first stated: the target of the last flow of a returned non-empty path
\* has no outgoing flow in the input flow set.
C10_EndHasNoOutgoing ==
    (Done /\ result.path # << >>) => ~HasOutgoing(LastTarget(result.path))

\* C11: the call keeps nothing from one call to the next: each call starts with an
\* empty memo and hands an empty visiting set to each top-level dfs, so a call made
\* after a call on another flow list returns what it returns otherwise (the
\* specification's result for its example, and for the first list the result it had
\* before), and at no step is the flow list or a field of a flow changed.
C11_Stateless ==
    /\ flows = given
    /\ (pc = "main" /\ ki = 1) => memo = << >>
    /\ (pc = "dfs" /\ Len(stack) = 1 /\ Top.at = "enter") => visiting = {}
    /\ (Done /\ earlier.at = "away" /\ flows = ExampleDag)
           => result = [total |-> 7, path |-> << 1, 2 >>]
    /\ (Done /\ earlier.at = "back") => result = earlier.result

\* a list with a path was called, then the example, then the first list again
C11_Witness ==
    /\ Done /\ earlier.at = "back" /\ flows # ExampleDag
    /\ Len(result.path) >= 1 /\ result = earlier.result
    /\ \E n \in DOMAIN memo : memo[n].flow # None

\* C19: the returned total is the sum of the lead times (a missing one counted as
\* 0) of exactly the flows of the returned sequence, on cyclic inputs too.
C19_TotalIsPathSum == Done => result.total = PathTotal(result.path)

\* a cyclic input whose total is below the optimum: a memo entry was computed while
\* a node was excluded
C19_Witness ==
    /\ Done /\ ~Acyclic /\ Len(result.path) >= 1
    /\ result.total < LongestSimple
    /\ result.total = PathTotal(result.path)

\* C20: the returned total is the greatest memoized best total over the nodes that
\* have an outgoing flow; a non-empty returned path starts at the first such node,
\* in order of first appearance as a flow source, that attains it, and follows the
\* memoized chosen flows until a node has no chosen flow.
Sources == { flows[j].from_node_id : j \in 1..Len(flows) }
FirstAsSource(n) == CHOOSE j \in 1..Len(flows) :
                        flows[j].from_node_id = n /\ \A i \in 1..(j - 1) : flows[i].from_node_id # n
GreatestMemo == MaxOf({ memo[n].total : n \in Sources })
FirstGreatestSource ==
    CHOOSE n \in Sources :
        /\ memo[n].total = GreatestMemo
        /\ \A m \in Sources : memo[m].total = GreatestMemo => FirstAsSource(n) <= FirstAsSource(m)
RECURSIVE MemoChain(_)
MemoChain(n) ==
    IF n \notin DOMAIN memo \/ memo[n].flow = None THEN << >>
    ELSE << memo[n].flow >> \o MemoChain(flows[memo[n].flow].to_node_id)
C20_GreatestFirstStart ==
    Done => /\ Sources \subseteq DOMAIN memo
            /\ result.total = GreatestMemo
            /\ result.path # << >>
                   => /\ flows[result.path[1]].from_node_id = FirstGreatestSource
                      /\ result.path = MemoChain(FirstGreatestSource)

\* two start nodes attain the greatest total, the path starts at the first of them
C20_Witness ==
    /\ Done /\ result.path # << >>
    /\ Cardinality({ n \in Sources : memo[n].total = GreatestMemo }) >= 2
    /\ flows[result.path[1]].from_node_id = FirstGreatestSource

\* ---------------------------------------------------------------- arrowheads

LoopDone == filtered_flows # << >> /\ fpos > Len(filtered_flows)
ArrowsOf(j) == { k \in DOMAIN arrow_records : arrow_records[k].id = j }
RecordsOf(j) == { k \in DOMAIN flow_records : flow_records[k].id = j }
\* the distance of the flow is above 0.1 km, in the hundredths it is given in
Far(flow) == flow.distance_km.num * 10 > flow.distance_km.den

\* C12: a retained flow gets an arrowhead record exactly when its distance is
\* above 0.1 km; at or below 0.1 km it gets none, and its own record is emitted
\* all the same. A flow that is not retained gets neither.
C12_ArrowIffFar ==
    \A j \in 1..Len(filtered_flows) :
        LET flow == filtered_flows[j]
        IN  IF j < fpos
            THEN /\ Cardinality(ArrowsOf(j)) = IF Retained(flow) /\ Far(flow) THEN 1 ELSE 0
                 /\ Cardinality(RecordsOf(j)) = IF Retained(flow) THEN 1 ELSE 0
            ELSE ArrowsOf(j) = {} /\ RecordsOf(j) = {}

\* the loop is over: one flow exactly 0.1 km long has its record and no
\* arrowhead, another has both
C12_Witness ==
    /\ LoopDone
    /\ \E j \in 1..Len(filtered_flows) :
          /\ Retained(filtered_flows[j]) /\ filtered_flows[j].distance_km = Rat(10, 100)
          /\ ArrowsOf(j) = {} /\ RecordsOf(j) # {}
    /\ \E j \in 1..Len(filtered_flows) : ArrowsOf(j) # {} /\ RecordsOf(j) # {}

\* C13: the base fraction of every arrowhead is at least 0.55 and below 1, and
\* of two arrowheads the one of the longer flow has the greater or equal fraction.
C13_FractionRange ==
    /\ \A k \in DOMAIN arrow_records :
          LET f == arrow_records[k].base_fraction
          IN  f.den > 0 /\ 11 * f.den <= 20 * f.num /\ f.num < f.den
    /\ \A k1, k2 \in DOMAIN arrow_records :
          RatLeq(arrow_records[k1].distance_km, arrow_records[k2].distance_km)
              => RatLeq(arrow_records[k1].base_fraction, arrow_records[k2].base_fraction)

\* two arrowheads: a short flow at the floor of 0.55 and a longer one above it
C13_Witness ==
    /\ LoopDone
    /\ \E k1, k2 \in DOMAIN arrow_records :
          /\ RatLess(arrow_records[k1].distance_km, arrow_records[k2].distance_km)
          /\ RatEq(arrow_records[k1].base_fraction, Rat(11, 20))
          /\ RatLess(arrow_records[k1].base_fraction, arrow_records[k2].base_fraction)

\* C14: arrow_length is a fifth of the distance kept within 40 and 600 km (40 up
\* to 200 km, 600 from 3000 km on), and wing_length is 0.35 of it, so within 14
\* and 210 km.
C14_LengthsClamped ==
    \A k \in DOMAIN arrow_records :
        LET r == arrow_records[k]
            n == r.distance_km.num
        IN  /\ r.distance_km.den = 100
            /\ n <= 20000 => RatEq(r.arrow_length, Rat(40, 1))
            /\ n >= 300000 => RatEq(r.arrow_length, Rat(600, 1))
            /\ (20000 <= n /\ n <= 300000) => r.arrow_length.num * 500 = n * r.arrow_length.den
            /\ RatEq(RatMul(r.wing_length, Rat(20, 1)), RatMul(r.arrow_length, Rat(7, 1)))
            /\ RatLeq(Rat(14, 1), r.wing_length) /\ RatLeq(r.wing_length, Rat(210, 1))

\* two arrowheads: one of a length strictly between the limits, one at 600 km
C14_Witness ==
    /\ LoopDone
    /\ \E k1, k2 \in DOMAIN arrow_records :
          /\ RatLess(Rat(40, 1), arrow_records[k1].arrow_length)
          /\ RatLess(arrow_records[k1].arrow_length, Rat(600, 1))
          /\ RatEq(arrow_records[k2].arrow_length, Rat(600, 1))
          /\ RatEq(arrow_records[k2].wing_length, Rat(210, 1))

\* ------------------------------------------------------------------ geometry

\* a tenth of a degree: the rounding of the fixed-point functions stays below it
Tolerance == 1000
Near(p, q) == Abs(p.lat - q.latitude) <= Tolerance /\ Abs(p.lon - q.longitude) <= Tolerance
BearingKnown == gpc \in {"midpoint", "distance", "destination", "done", "raised"}
MidKnown == gpc \in {"distance", "destination", "done", "raised"}

\* C15: the bearing of any two valid points is at least 0 and below 360, and for
\* two identical points it is a number (0).
C15_BearingRange ==
    BearingKnown => /\ 0 <= out_bearing /\ out_bearing < 360 * Unit
                    /\ source = target => out_bearing = 0

\* a bearing to the west: atan2 gave a negative angle
C15_Witness == BearingKnown /\ out_bearing > 180 * Unit /\ source # target

\* C16: for two distinct points the point at fraction 0.0 is the first and the
\* point at fraction 1.0 is the second, within the tolerance.
C16_Endpoints ==
    (MidKnown /\ source # target)
        => /\ frac = 0 => ~out_mid.raised /\ Near(out_mid, source)
           /\ frac = Unit => ~out_mid.raised /\ Near(out_mid, target)

\* the point at fraction 1.0 is the second point, far from the first
C16_Witness ==
    /\ MidKnown /\ source # target /\ frac = Unit
    /\ Near(out_mid, target) /\ ~Near(out_mid, source)

C18_RoundTrip == (gpc = "done" /\ source # target) => Near(out_destination, target)

\* ---------------------------------------------------------------------------
\* The visiting set and the memo during one call
\* ---------------------------------------------------------------------------

\* the calls that have passed the memo test of line 1112 and not yet returned
Entered == { k \in 1..Len(stack) : stack[k].at # "enter" }
ActivePath == { stack[k].node_id : k \in Entered }
OnStack == { stack[k].node_id : k \in 1..Len(stack) }
NextFlow == flows[OutgoingGet(Top.node_id)[Top.i]]

\* visiting is the set of nodes of the calls in progress, and where line 1117
\* reads it every call on the stack is in progress; it is empty when a
\* top-level call has returned
VisitingIsActivePath ==
    /\ pc = "dfs" => visiting = ActivePath
    /\ (pc = "dfs" /\ Len(stack) > 0 /\ Top.at = "loop") => visiting = OnStack
    /\ pc = "returned" => visiting = {}

\* a flow is skipped only when its target is on the active path, and a call is
\* made on every other target, also on one that was on the path before
SkipOnlyOnPath ==
    /\ DfsSkip => NextFlow.to_node_id \in ActivePath
    /\ (DfsCall /\ pc' = "dfs") =>
           /\ NextFlow.to_node_id \notin ActivePath
           /\ stack'[Len(stack')].node_id = NextFlow.to_node_id

\* C21: during the DFS the visiting set is exactly the set of nodes on the
\* active recursion stack; a node in it is skipped only as a next hop of the
\* current path and is eligible again after its call has returned; the set is
\* empty whenever a top-level dfs call returns.
C21_VisitingIsStack == [](VisitingIsActivePath) /\ [][SkipOnlyOnPath]_vars

\* node 2 was on the path of the call on node 1, where the flow back to 1 was
\* skipped; after that call returned it is called again from node 3
C21_Witness ==
    /\ flows = ExampleCrossBranch
    /\ pc = "dfs"
    /\ StackNodes = << 3, 2 >>
    /\ Top.at = "enter"
    /\ visiting = {3}
    /\ 2 \in DOMAIN memo /\ memo[2].flow = None

\* the nodes named by some flow
Mentioned == { flows[j].from_node_id : j \in 1..Len(flows) }
                 \cup { flows[j].to_node_id : j \in 1..Len(flows) }
RECURSIVE SumTo(_, _)
SumTo(f, k) == IF k = 0 THEN 0 ELSE f[k] + SumTo(f, k - 1)
WorkDone == SumTo(work.entered, NumNodes) + SumTo(work.examined, Len(flows))

\* between line 1109 and the return, an entry of memo stays as it was written, and
\* line 1125 writes only an entry that is not there yet
MemoWrittenOnce ==
    /\ pc \notin {"build", "done"} =>
           \A n \in DOMAIN memo : n \in DOMAIN memo' /\ memo'[n] = memo[n]
    /\ (pc = "dfs" /\ Len(stack) > 0 /\ Top.at = "loop" /\ memo' # memo) =>
           /\ Top.node_id \notin DOMAIN memo
           /\ DOMAIN memo' = DOMAIN memo \cup { Top.node_id }

\* a call on a memoized node returns the entry and runs nothing else
MemoHitReturnsEntry ==
    (pc = "dfs" /\ Len(stack) > 0 /\ Top.at = "enter" /\ Top.node_id \in DOMAIN memo) =>
        /\ ret' = memo[Top.node_id]
        /\ stack' = Pop
        /\ UNCHANGED << memo, visiting, work >>

\* line 1114 runs at most once per node and line 1117 at most once per flow
WorkBounded ==
    /\ \A n \in Nodes : work.entered[n] <= (IF n \in Mentioned THEN 1 ELSE 0)
    /\ \A j \in 1..Len(flows) : work.examined[j] <= 1
    /\ WorkDone <= Cardinality(Mentioned) + Len(flows)

\* C22: within one call a node's memo entry is written at most once, the first
\* time the node finishes, and never overwritten; every later dfs call on the
\* node returns the stored entry whatever the visiting set holds; so each flow
\* is examined at most once and the work is at most nodes plus flows.
C22_MemoOnce == [](WorkBounded) /\ [][MemoWrittenOnce /\ MemoHitReturnsEntry]_vars

\* node 3 finished inside the call on node 2; the flow 1 -> 3 calls it again
\* while node 1 is in visiting, and every flow has been examined once
C22_Witness ==
    /\ flows = ExampleDag
    /\ pc = "dfs"
    /\ StackNodes = << 1, 3 >>
    /\ Top.at = "enter"
    /\ memo[3] = NoBest
    /\ visiting = {1}
    /\ work.entered[3] = 1
    /\ work.examined = << 1, 1, 1 >>

\* ---------------------------------------------------------------------------
\* The returned pair
\* ---------------------------------------------------------------------------

NoLeadAtAll == \A j \in 1..Len(flows) : flows[j].lead_time_days \in {None, 0}

\* C23: the returned flow sequence is empty if and only if the returned total is
\* 0.0; a non-empty flow set whose lead times are all zero or missing yields
\* (0.0, []), which render_summary reports as no lead-time path available.
C23_EmptyIffZero ==
    Done =>
        /\ result.path = << >> <=> result.total = 0
        /\ (flows # << >> /\ NoLeadAtAll) =>
               /\ result = [total |-> 0, path |-> << >>]
               /\ Caption(result.total, result.path) = "No lead-time path available"

C23_Witness ==
    /\ Done
    /\ Len(flows) = 2
    /\ flows[1].lead_time_days = 0 /\ flows[2].lead_time_days = None
    /\ flows[1].to_node_id = flows[2].from_node_id
    /\ flows[1].from_node_id # flows[1].to_node_id
    /\ result = [total |-> 0, path |-> << >>]

\* ---------------------------------------------------------------------------
\* Grid Survival timer
\* ---------------------------------------------------------------------------

\* the step is a call of this handler
Handled(handler) == called'.handler = handler /\ (acts' = acts + 1 \/ ticks' = ticks + 1)
JustCalled(handler) == called.handler = handler /\ acts + ticks > 0

\* the entry texts that are a positive integer
PositiveIntegerTexts == { "1", "2" }

\* C24: apply_settings takes effect only while the timer is paused and both
\* entries are positive integers; invoked while running, or with a non-integer
\* or non-positive start grid or duration, it leaves start_grid_points,
\* duration_sec, grid_points, elapsed_sec, rate_multiplier, running and all team
\* counts unchanged.
C24_ApplyOnlyPausedAndValid ==
    [][(/\ Handled("apply_settings")
        /\ \/ running
           \/ called'.args[1] \notin PositiveIntegerTexts
           \/ called'.args[2] \notin PositiveIntegerTexts)
       => UNCHANGED << start_grid_points, duration_sec, grid_points, elapsed_sec,
                       rate_multiplier, running, team_station_counts,
                       team_mus_counts >>]_vars

\* a valid start grid with a duration that is no integer, applied while paused
\* after a team has got a station and the multiplier was changed
C24_Witness ==
    /\ JustCalled("apply_settings")
    /\ called.args = << "2", "1.5" >>
    /\ ~running
    /\ start_grid_points = DefaultStartGrid
    /\ duration_sec = DefaultDurationSec
    /\ team_station_counts[1] = 1
    /\ grid_points = Float0(DefaultStartGrid + StationPoints)

NoCounts == [k \in 1..NumTeams |-> 0]

\* C25: reset invoked from any reachable state yields running = False,
\* grid_points = start_grid_points, elapsed_sec = 0, rate_multiplier = 1.0,
\* alert_state = 'none', victory inactive and every team station and MUS count
\* = 0, while start_grid_points and duration_sec are unchanged.
C25_ResetRestores ==
    [][Handled("reset") =>
          /\ running' = FALSE
          /\ grid_points' = start_grid_points' * UnitsPerPoint
          /\ elapsed_sec' = 0
          /\ rate_multiplier' = QuartersPerOne
          /\ alert_state' = "none"
          /\ victory_active' = FALSE
          /\ team_station_counts' = NoCounts
          /\ team_mus_counts' = NoCounts
          /\ UNCHANGED << start_grid_points, duration_sec >>]_vars

\* reset after the grid of a one-point game has gone dark at 4x
C25_Witness ==
    /\ JustCalled("reset")
    /\ ticks = 2
    /\ acts = 1
    /\ start_grid_points = 1
    /\ grid_points = UnitsPerPoint
    /\ elapsed_sec = 0
    /\ rate_multiplier = QuartersPerOne
    /\ alert_state = "none"
    /\ ~running

\* by how much the count of the team of this call changes in the step
Change(counts, team_idx) ==
    IF 0 <= team_idx /\ team_idx < NumTeams
    THEN counts'[team_idx + 1] - counts[team_idx + 1]
    ELSE 0

\* the step of a team update: the other counts stay, grid_points moves by the
\* count change times the points of one unit, floored at 0
TeamStep(handler, counts, others, points) ==
    Handled(handler) =>
        LET team_idx == called'.args[1]
            delta == called'.args[2]
            d == Change(counts, team_idx)
            moved == grid_points + d * points * UnitsPerPoint
        IN  /\ d \in {0, delta}
            /\ \A k \in 1..NumTeams : k # team_idx + 1 => counts'[k] = counts[k]
            /\ others' = others
            /\ grid_points' = IF moved < 0 THEN 0 ELSE moved
            /\ (0 <= team_idx /\ team_idx < NumTeams /\ counts[team_idx + 1] = 0
                   /\ delta < 0) =>
                   UNCHANGED << team_station_counts, team_mus_counts, grid_points >>

CountsNotNegative ==
    \A k \in DOMAIN team_station_counts :
        team_station_counts[k] >= 0 /\ team_mus_counts[k] >= 0

\* C26: each team's station and MUS count is never negative; a count change of
\* d made by update_team_station or update_team_mus changes grid_points by 2*d
\* (station) or 7*d (MUS), floored at 0; a decrement requested at count 0
\* changes neither any count nor grid_points.
C26_TeamCounts ==
    /\ [](CountsNotNegative)
    /\ [][/\ TeamStep("update_team_station", team_station_counts, team_mus_counts, 2)
          /\ TeamStep("update_team_mus", team_mus_counts, team_station_counts, 7)]_vars

\* a station is taken back after three ticks have used part of its two points:
\* the count is 0 again and the grid has met the floor
C26_Witness ==
    /\ JustCalled("update_team_station")
    /\ called.args = << 0, 0 - 1 >>
    /\ team_station_counts[1] = 0
    /\ ticks = 3
    /\ acts = 2
    /\ grid_points = 0

\* C27: grid_points is >= 0 in every reachable state, under any interleaving of
\* ticks, start, pause, reset, apply_settings, rate changes, add_points with
\* negative or positive amounts, and team count updates.
C27_GridNotNegative == grid_points >= 0

\* the -1 button pressed when less than a point is left
C27_Witness ==
    /\ JustCalled("add_points")
    /\ called.args = << 0 - 1 >>
    /\ ticks > 0
    /\ running
    /\ grid_points = 0

\* the tick finds the timer running with points and time left
TickCounts == running /\ grid_points > 0 /\ elapsed_sec < duration_sec * TicksPerSec
Expired == elapsed_sec >= duration_sec * TicksPerSec

\* C28: a tick changes elapsed_sec and grid_points only when running is True,
\* grid_points > 0 and elapsed_sec < duration_sec; a tick that brings
\* grid_points to 0 sets running = False and alert_state = 'failure'; a tick
\* that brings elapsed_sec to duration_sec or beyond with grid_points > 0 sets
\* running = False and alert_state = 'success'; the blackout takes precedence
\* when both happen on the same tick.
C28_TickEnds ==
    [][Handled("_tick") =>
          /\ ~TickCounts => UNCHANGED << elapsed_sec, grid_points, running, alert_state >>
          /\ (grid_points > 0 /\ grid_points' = 0) =>
                 running' = FALSE /\ alert_state' = "failure"
          /\ (~Expired /\ Expired' /\ grid_points' > 0) =>
                 running' = FALSE /\ alert_state' = "success"
          /\ (TickCounts /\ grid_points' > 0 /\ ~Expired') =>
                 running' = TRUE /\ alert_state' = alert_state]_vars

\* the last point runs out on the tick on which the minute is over
C28_Witness ==
    /\ JustCalled("_tick")
    /\ acts = 0
    /\ grid_points = 0
    /\ elapsed_sec = duration_sec * TicksPerSec
    /\ ~running
    /\ alert_state = "failure"

\* C29: whenever running is True, a fair sequence of ticks with no further user
\* action eventually makes running False (by blackout or by expiry of the
\* duration), whatever rate multiplier is set, including 0x, and whatever state
\* start was invoked from.
C29_EventuallyStops == running ~> ~running

\* C30: in every reachable state the Start button is disabled exactly when
\* running is True and the Pause button is enabled exactly when running is
\* True, including the initial state and the states reached when a tick stops
\* the timer by blackout or time expiry.
C30_ButtonsFollowRunning ==
    /\ start_btn = "disabled" <=> running
    /\ pause_btn = "normal" <=> running

====
